---- MODULE Spec2Model ----
(***************************************************************************)
(* Global Echo: the session state controller of src/App.tsx (the App       *)
(* component), the remote analysis client of services/geminiService        *)
(* (src/unnamed/part_000) and the recording workflow around them.          *)
(*                                                                         *)
(* src/App.tsx holds three versions of the component.  The first two       *)
(* (lines 38-403 and 442-825) have the same handlers: text is analysed     *)
(* when the Study button is pressed.  The third (lines 833-1160) analyses  *)
(* the text 1000 ms after the last edit.  The variable `variant` says      *)
(* which of the two behaviours a run follows.                              *)
(*                                                                         *)
(* Every action is one run-to-completion step of the browser's event loop: *)
(* an event handler up to its first await, or the continuation of an await *)
(* together with the state updates React applies before the next event.    *)
(***************************************************************************)
EXTENDS Integers, Sequences, FiniteSets

(***************************************************************************)
(* Bounds of the model.                                                    *)
(***************************************************************************)
\* the user types the texts numbered 0..MaxText in length-then-alphabet order
MaxText == 2
\* startRecording calls that may be under way at once
MaxSessions == 2
\* transcription requests that may be in flight at once
MaxFetches == 2
\* synthesis requests that may be in flight at once
MaxSynth == 2
\* debounce timers that may be pending at once
MaxTimers == 2
\* how many of the options of each voice-setting select the user picks from
NumChoices == 1
\* the longest synthesised payload, in 16-bit samples
MaxFrames == 2

VARIABLES
    variant,           \* "study" (App.tsx 38-403) or "debounce" (App.tsx 833-1160)
    inputText,         \* useState: the text area's value
    phoneticData,      \* useState: WordIPA[]
    selectedAccent,    \* useState
    selectedTone,      \* useState
    selectedSpeed,     \* useState
    isGenerating,      \* useState
    isRecording,       \* useState
    evaluation,        \* useState: DetailedEvaluation | null (`feedback` in the third version)
    isEvaluating,      \* useState
    isFetchingIPA,     \* useState
    mediaStream,       \* useState: MediaStream | null, 0 for null, else the session owning it
    mediaRecorderRef,  \* useRef: 0 for null, else the session whose MediaRecorder it holds
    audioChunksRef,    \* useRef: Blob[], each chunk named by the session that recorded it
    timeoutRef,        \* useRef (third version): 0 for null, else the timer set last
    timers,            \* the timers of window.setTimeout and the text each will fetch
    ipaRequests,       \* getPhoneticTranscription calls in flight
    ttsRequests,       \* generateTTS calls in flight
    recordings,        \* startRecording invocations and the recorder and stream each owns
    mounted,           \* whether the component tree is mounted
    audioContexts,     \* AudioVisualizer: the open AudioContexts, each named by the stream it taps
    animationFrames,   \* AudioVisualizer: the requested animation frames, each named by the
                       \* context whose draw loop requested it
    animationRef,      \* AudioVisualizer useRef: the requested frame it holds, 0 when it holds
                       \* none or one that has been cancelled
    effectCleanup,     \* AudioVisualizer: the context whose cleanup the last effect returned,
                       \* 0 when the effect returned none
    alertBox,          \* the blocking window.alert on screen, "none" when there is none
    audioOut,          \* whether a buffer source started by the component is sounding
    pcm,               \* generateTTS: the bytes of audio the service synthesised
    base64Audio,       \* generateTTS: inlineData.data of the response, the bytes in base64
    audioBuffer        \* generateTTS: what the decoding of the response came to

vars == <<variant, inputText, phoneticData, selectedAccent, selectedTone, selectedSpeed,
          isGenerating, isRecording, evaluation, isEvaluating, isFetchingIPA,
          mediaStream, mediaRecorderRef, audioChunksRef, timeoutRef, timers,
          ipaRequests, ttsRequests, recordings, alertBox, audioOut,
          mounted, audioContexts, animationFrames, animationRef, effectCleanup,
          pcm, base64Audio, audioBuffer>>

decoderVars == <<pcm, base64Audio, audioBuffer>>
vizVars == <<mounted, audioContexts, animationFrames, animationRef, effectCleanup>>
configVars == <<selectedAccent, selectedTone, selectedSpeed>>
timerVars == <<timeoutRef, timers>>
recorderVars == <<isRecording, isEvaluating, mediaStream, mediaRecorderRef,
                  audioChunksRef, recordings>>

(***************************************************************************)
(* Texts.  A text is a sequence of characters; one blank and one letter    *)
(* are enough to tell empty, whitespace-only and non-empty text apart.     *)
(***************************************************************************)
CharList == <<" ", "a">>
\* the n-th text when texts are listed by length and then by CharList: "", " ",
\* "a", "  ", " a", ...
RECURSIVE TextNo(_)
TextNo(n) ==
    IF n = 0 THEN <<>>
    ELSE TextNo((n - 1) \div Len(CharList)) \o <<CharList[((n - 1) % Len(CharList)) + 1]>>
Texts == {TextNo(n) : n \in 0..MaxText}

RECURSIVE TrimStart(_)
TrimStart(t) ==
    IF t = <<>> THEN <<>>
    ELSE IF Head(t) = " " THEN TrimStart(Tail(t)) ELSE t

RECURSIVE TrimEnd(_)
TrimEnd(t) ==
    IF t = <<>> THEN <<>>
    ELSE IF t[Len(t)] = " " THEN TrimEnd(SubSeq(t, 1, Len(t) - 1)) ELSE t

\* String.prototype.trim as the handlers use it
trim(t) == TrimEnd(TrimStart(t))

\* !inputText.trim()
IsBlank(t) == trim(t) = <<>>

(***************************************************************************)
(* Voice settings (types.ts, App.tsx 41-43 and 54).                        *)
(***************************************************************************)
Accent == <<"USA", "India", "Singapore", "Australia", "Hong Kong">>
Tone == <<"Cheerful", "Flat", "Business-like", "Inquisitive", "Serious">>
speeds == <<25, 50, 75, 100, 125, 150>>

Accents == {Accent[i] : i \in 1..Len(Accent)}
Tones == {Tone[i] : i \in 1..Len(Tone)}
Speeds == {speeds[i] : i \in 1..Len(speeds)}

Min(a, b) == IF a < b THEN a ELSE b
\* the options the user picks from in this model: the last NumChoices of each select
AccentChoices == {Accent[Len(Accent) + 1 - i] : i \in 1..Min(NumChoices, Len(Accent))}
ToneChoices == {Tone[Len(Tone) + 1 - i] : i \in 1..Min(NumChoices, Len(Tone))}
SpeedChoices == {speeds[Len(speeds) + 1 - i] : i \in 1..Min(NumChoices, Len(speeds))}

(***************************************************************************)
(* The remote service.  Transcribe answers with a JSON array holding one   *)
(* entry per word of the text it was sent, with an empty array, with an    *)
(* empty body or with text that is no JSON; or the call fails.             *)
(***************************************************************************)
RECURSIVE Words(_)
Words(t) ==
    LET s == TrimStart(t) IN
    IF s = <<>> THEN <<>>
    ELSE LET n == CHOOSE k \in 1..Len(s) :
                    /\ \A i \in 1..k : s[i] # " "
                    /\ (k = Len(s) \/ s[k + 1] = " ")
         IN <<SubSeq(s, 1, n)>> \o Words(SubSeq(s, n + 1, Len(s)))

\* the WordIPA entry of a word
WordIPA(w) == [word |-> w, ipa |-> <<"/">> \o w \o <<"/">>]

Transcription(t) == [i \in 1..Len(Words(t)) |-> WordIPA(Words(t)[i])]

TranscribeBodies(t) ==
    { [kind |-> "json", value |-> Transcription(t)],
      [kind |-> "json", value |-> <<>>],
      [kind |-> "empty", value |-> <<>>],
      [kind |-> "malformed", value |-> <<>>] }

\* what a request that failed in transport carries instead of a body
NoBody == [kind |-> "none", value |-> <<>>]

\* JSON.parse(response.text || "[]") with its catch, part_000 162-167
ParsePhonetic(body) ==
    IF body.kind = "empty" THEN <<>>
    ELSE IF body.kind = "malformed" THEN <<>>
    ELSE body.value

(***************************************************************************)
(* The playback decoder of generateTTS.  The response carries the audio as *)
(* base64 text; a base64 text is the sequence of the values 0..63 of its   *)
(* characters, Pad standing for "=".  A byte is a number in 0..255.  A     *)
(* sample is the fraction num / den: every 16-bit integer divided by 32768 *)
(* is a Float32 value, so the division and the store into the channel data *)
(* lose nothing.                                                           *)
(***************************************************************************)
Pad == 64
\* the bytes a payload is made of: both ends of the range and both sides of the sign bit
ByteChoices == {0, 1, 127, 128, 255}
Payloads == UNION {[1..n -> ByteChoices] : n \in 0..(2 * MaxFrames)}

\* the base64 text of a payload, as the service puts it into inlineData.data
RECURSIVE btoa(_)
btoa(bytes) ==
    IF Len(bytes) = 0 THEN <<>>
    ELSE IF Len(bytes) = 1
    THEN <<bytes[1] \div 4, (bytes[1] % 4) * 16, Pad, Pad>>
    ELSE IF Len(bytes) = 2
    THEN <<bytes[1] \div 4, (bytes[1] % 4) * 16 + bytes[2] \div 16,
           (bytes[2] % 16) * 4, Pad>>
    ELSE <<bytes[1] \div 4, (bytes[1] % 4) * 16 + bytes[2] \div 16,
           (bytes[2] % 16) * 4 + bytes[3] \div 64, bytes[3] % 64>>
         \o btoa(SubSeq(bytes, 4, Len(bytes)))

\* window.atob, part_000 8: the binary string of a base64 text, one character code
\* below 256 for each byte
RECURSIVE atob(_)
atob(base64) ==
    IF Len(base64) < 4 THEN <<>>
    ELSE LET a == base64[1]
             b == base64[2]
             c == base64[3]
             d == base64[4]
             rest == atob(SubSeq(base64, 5, Len(base64)))
         IN IF c = Pad THEN <<a * 4 + b \div 16>>
            ELSE IF d = Pad THEN <<a * 4 + b \div 16, (b % 16) * 16 + c \div 4>>
            ELSE <<a * 4 + b \div 16, (b % 16) * 16 + c \div 4, (c % 4) * 64 + d>> \o rest

\* decode, part_000 7-15: a Uint8Array element keeps the low eight bits of what is stored
decode(base64) ==
    LET binaryString == atob(base64)
    IN [i \in 1..Len(binaryString) |-> binaryString[i] % 256]

\* fault: the two bytes of a sample read high byte first
Int16Array_BigEndian(data) ==
    [j \in 1..(Len(data) \div 2) |->
        LET u == 256 * data[2 * j - 1] + data[2 * j]
        IN IF u >= 32768 THEN u - 65536 ELSE u]

\* new Int16Array(data.buffer), part_000 23: the bytes seen as two's-complement 16-bit
\* integers in the byte order of the platform, low byte first on every platform the
\* component runs on
Int16Array(data) ==
    [j \in 1..(Len(data) \div 2) |->
        LET u == data[2 * j - 1] + 256 * data[2 * j]
        IN IF u >= 32768 THEN u - 65536 ELSE u]

NoBuffer == [st |-> "none", length |-> 0, channelData |-> <<>>]

\* decodeAudioData, part_000 17-34; the Int16Array constructor throws a RangeError on a
\* buffer of odd length
decodeAudioData(data, numChannels) ==
    IF Len(data) % 2 # 0
    THEN [st |-> "RangeError", length |-> 0, channelData |-> <<>>]
    ELSE LET dataInt16 == Int16Array(data)
             frameCount == Len(dataInt16) \div numChannels
         IN [st |-> "buffer", length |-> frameCount,
             channelData |->
                [channel \in 1..numChannels |->
                    [i \in 1..frameCount |->
                        [num |-> dataInt16[(i - 1) * numChannels + channel],
                         den |-> 32768]]]]


(***************************************************************************)
(* Requests and recording sessions.                                        *)
(***************************************************************************)
Fetches == 1..MaxFetches
Timers == 1..MaxTimers
Synths == 1..MaxSynth
Sessions == 1..MaxSessions

NoFetch == [st |-> "idle", text |-> <<>>, outcome |-> "none", body |-> NoBody]
NoSynth == [st |-> "idle", text |-> <<>>, accent |-> "none", tone |-> "none", speed |-> 0]
NoSession == [st |-> "free", text |-> <<>>, live |-> FALSE, blob |-> <<>>]
NoTimer == [armed |-> FALSE, text |-> <<>>]
NoEvaluation == [kind |-> "null", text |-> <<>>, blob |-> <<>>]

PendingTimers == {i \in Timers : timers[i].armed}
BusyFetches == {k \in Fetches : ipaRequests[k].st # "idle"}
BusySynths == {k \in Synths : ttsRequests[k].st # "idle"}
\* the evaluatePronunciation calls in flight
Evaluating == {s \in Sessions : recordings[s].st = "evaluating"}

FreeSlot(S, busy) == CHOOSE k \in S \ busy : \A j \in S \ busy : k <= j

\* the browser runs no handler of the page while window.alert is on screen
Unblocked == alertBox = "none"


(***************************************************************************)
(* Initial state: the useState and useRef initial values.  The third       *)
(* version starts with a sample sentence in the text area and its effect   *)
(* arms the debounce timer on mount.                                       *)
(***************************************************************************)
InitialText(v) == IF v = "study" THEN <<>> ELSE <<"a">>

InitComponent(v) ==
    /\ variant = v
    /\ inputText = InitialText(v)
    /\ phoneticData = <<>>
    /\ selectedAccent = Accent[1]
    /\ selectedTone = Tone[3]
    /\ selectedSpeed = speeds[2]
    /\ isGenerating = FALSE
    /\ isRecording = FALSE
    /\ evaluation = NoEvaluation
    /\ isEvaluating = FALSE
    /\ isFetchingIPA = FALSE
    /\ mediaStream = 0
    /\ mediaRecorderRef = 0
    /\ audioChunksRef = <<>>
    /\ timeoutRef = IF v = "study" THEN 0 ELSE 1
    /\ timers = [i \in Timers |->
                    IF v # "study" /\ i = 1
                    THEN [armed |-> TRUE, text |-> InitialText(v)]
                    ELSE NoTimer]
    /\ ipaRequests = [k \in Fetches |-> NoFetch]
    /\ ttsRequests = [k \in Synths |-> NoSynth]
    /\ recordings = [s \in Sessions |-> NoSession]
    /\ alertBox = "none"
    /\ audioOut = FALSE
    /\ mounted = TRUE
    /\ audioContexts = {}
    /\ animationFrames = {}
    /\ animationRef = 0
    /\ effectCleanup = 0

\* the component before any response of the speech service has been decoded
InitOf(v) ==
    /\ InitComponent(v)
    /\ pcm = <<>>
    /\ base64Audio = <<>>
    /\ audioBuffer = NoBuffer

(***************************************************************************)
(* Enabling conditions of the controls (the `disabled` attributes).        *)
(***************************************************************************)
\* Study button, App.tsx 185
StudyDisabled == IsBlank(inputText) \/ isFetchingIPA

\* LISTEN TO MODEL button, App.tsx 237; third version App.tsx 1034
ListenDisabled ==
    IF variant = "study"
    THEN isGenerating \/ Len(phoneticData) = 0
    ELSE isGenerating \/ IsBlank(inputText) \/ isFetchingIPA

\* fault: the PRACTICE button does not look at the fetching flag
PracticeDisabled_NoFetchCheck ==
    IF variant = "study"
    THEN isEvaluating \/ Len(phoneticData) = 0
    ELSE isEvaluating

\* PRACTICE button, shown when !isRecording, App.tsx 245-248; third version App.tsx 1103-1106
PracticeDisabled ==
    IF variant = "study"
    THEN isEvaluating \/ isFetchingIPA \/ Len(phoneticData) = 0
    ELSE isEvaluating \/ isFetchingIPA

(***************************************************************************)
(* Text input.                                                             *)
(***************************************************************************)
\* handleInputChange, App.tsx 74-80
HandleInputChange(t) ==
    /\ variant = "study"
    /\ Unblocked
    /\ t # inputText
    /\ inputText' = t
    /\ IF Len(phoneticData) > 0
       THEN /\ phoneticData' = <<>>
            /\ evaluation' = NoEvaluation
       ELSE UNCHANGED <<phoneticData, evaluation>>
    /\ UNCHANGED <<variant, decoderVars, vizVars, configVars, isGenerating, isFetchingIPA, recorderVars,
                   timerVars, ipaRequests, ttsRequests, alertBox, audioOut>>

\* window.clearTimeout(timeoutRef.current) of the effect and of its cleanup,
\* App.tsx 869 and 874
ClearTimeout == [i \in Timers |-> IF i = timeoutRef THEN NoTimer ELSE timers[i]]

\* fault: the effect sets its timer without clearing the one set before
SetInputText_NoCancel(t) ==
    /\ variant = "debounce"
    /\ Unblocked
    /\ t # inputText
    /\ PendingTimers # Timers
    /\ inputText' = t
    /\ timeoutRef' = FreeSlot(Timers, PendingTimers)
    /\ timers' = [timers EXCEPT ![FreeSlot(Timers, PendingTimers)] =
                      [armed |-> TRUE, text |-> t]]
    /\ UNCHANGED <<variant, decoderVars, vizVars, phoneticData, evaluation, configVars, isGenerating,
                   isFetchingIPA, recorderVars, ipaRequests, ttsRequests, alertBox,
                   audioOut>>

\* third version: onChange sets the text (App.tsx 975) and the effect on inputText
\* clears the timer set last and sets a new one for the new text (App.tsx 868-876)
SetInputText(t) ==
    /\ variant = "debounce"
    /\ Unblocked
    /\ t # inputText
    /\ inputText' = t
    /\ LET pending == {i \in Timers : ClearTimeout[i].armed}
       IN /\ pending # Timers
          /\ timeoutRef' = FreeSlot(Timers, pending)
          /\ timers' = [ClearTimeout EXCEPT ![FreeSlot(Timers, pending)] =
                            [armed |-> TRUE, text |-> t]]
    /\ UNCHANGED <<variant, decoderVars, vizVars, phoneticData, evaluation, configVars, isGenerating,
                   isFetchingIPA, recorderVars, ipaRequests, ttsRequests, alertBox,
                   audioOut>>

(***************************************************************************)
(* Transcription.                                                          *)
(***************************************************************************)
SendFetch(text) ==
    ipaRequests' = [ipaRequests EXCEPT ![FreeSlot(Fetches, BusyFetches)] =
                        [st |-> "sent", text |-> text, outcome |-> "none", body |-> NoBody]]

\* handleStudy up to its await, App.tsx 56-64
HandleStudy ==
    /\ variant = "study"
    /\ Unblocked
    /\ ~StudyDisabled
    /\ BusyFetches # Fetches
    /\ IF IsBlank(inputText)
       THEN /\ phoneticData' = <<>>
            /\ UNCHANGED <<isFetchingIPA, evaluation, ipaRequests>>
       ELSE /\ isFetchingIPA' = TRUE
            /\ evaluation' = NoEvaluation
            /\ SendFetch(inputText)
            /\ UNCHANGED phoneticData
    /\ UNCHANGED <<variant, decoderVars, vizVars, inputText, configVars, isGenerating, recorderVars, timerVars,
                   ttsRequests, alertBox, audioOut>>

\* third version: a timer fires and runs fetchIPA(inputText) with the text of the
\* render that set it, up to its await, App.tsx 852-859 and 870-872; the ref keeps
\* the number of the timer
DebounceFire(i) ==
    /\ variant = "debounce"
    /\ Unblocked
    /\ timers[i].armed
    /\ BusyFetches # Fetches
    /\ timers' = [timers EXCEPT ![i] = NoTimer]
    /\ IF IsBlank(timers[i].text)
       THEN /\ phoneticData' = <<>>
            /\ UNCHANGED <<isFetchingIPA, ipaRequests>>
       ELSE /\ isFetchingIPA' = TRUE
            /\ SendFetch(timers[i].text)
            /\ UNCHANGED phoneticData
    /\ UNCHANGED <<variant, decoderVars, vizVars, inputText, evaluation, configVars, isGenerating, recorderVars,
                   timeoutRef, ttsRequests, alertBox, audioOut>>

\* the service answers a transcription request, or the call fails in transport
TranscribeRespond(k) ==
    /\ ipaRequests[k].st = "sent"
    /\ \/ \E b \in TranscribeBodies(ipaRequests[k].text) :
            ipaRequests' = [ipaRequests EXCEPT ![k].st = "responded",
                                               ![k].outcome = "resolved",
                                               ![k].body = b]
       \/ ipaRequests' = [ipaRequests EXCEPT ![k].st = "responded",
                                             ![k].outcome = "rejected"]
    /\ UNCHANGED <<variant, decoderVars, vizVars, inputText, phoneticData, evaluation, configVars, isGenerating,
                   isFetchingIPA, recorderVars, timerVars, ttsRequests, alertBox,
                   audioOut>>

\* fault: no finally block, the flag is not lowered after a resolved request
TranscribeResolved_NoFinally(k) ==
    /\ Unblocked
    /\ ipaRequests[k].st = "responded"
    /\ ipaRequests[k].outcome = "resolved"
    /\ phoneticData' = ParsePhonetic(ipaRequests[k].body)
    /\ ipaRequests' = [ipaRequests EXCEPT ![k] = NoFetch]
    /\ UNCHANGED <<variant, decoderVars, vizVars, inputText, evaluation, configVars, isGenerating, isFetchingIPA,
                   recorderVars, timerVars, ttsRequests, alertBox, audioOut>>

\* fault: a fence, the answer is dropped when the text has changed since the request
TranscribeResolved_Fenced(k) ==
    /\ Unblocked
    /\ ipaRequests[k].st = "responded"
    /\ ipaRequests[k].outcome = "resolved"
    /\ phoneticData' = IF inputText = ipaRequests[k].text
                       THEN ParsePhonetic(ipaRequests[k].body)
                       ELSE phoneticData
    /\ isFetchingIPA' = FALSE
    /\ ipaRequests' = [ipaRequests EXCEPT ![k] = NoFetch]
    /\ UNCHANGED <<variant, decoderVars, vizVars, inputText, evaluation, configVars, isGenerating, recorderVars,
                   timerVars, ttsRequests, alertBox, audioOut>>

\* fault: getPhoneticTranscription without its catch, a body that is no JSON makes
\* the call reject and the caller keeps the phonetic data it had
TranscribeResolved_ParseThrows(k) ==
    /\ Unblocked
    /\ ipaRequests[k].st = "responded"
    /\ ipaRequests[k].outcome = "resolved"
    /\ phoneticData' = IF ipaRequests[k].body.kind = "malformed"
                       THEN phoneticData
                       ELSE ParsePhonetic(ipaRequests[k].body)
    /\ isFetchingIPA' = FALSE
    /\ ipaRequests' = [ipaRequests EXCEPT ![k] = NoFetch]
    /\ UNCHANGED <<variant, decoderVars, vizVars, inputText, evaluation, configVars, isGenerating, recorderVars,
                   timerVars, ttsRequests, alertBox, audioOut>>

\* fault: the answer is appended to the phonetic data on display
TranscribeResolved_Appends(k) ==
    /\ Unblocked
    /\ ipaRequests[k].st = "responded"
    /\ ipaRequests[k].outcome = "resolved"
    /\ phoneticData' = phoneticData \o ParsePhonetic(ipaRequests[k].body)
    /\ isFetchingIPA' = FALSE
    /\ ipaRequests' = [ipaRequests EXCEPT ![k] = NoFetch]
    /\ UNCHANGED <<variant, decoderVars, vizVars, inputText, evaluation, configVars, isGenerating,
                   recorderVars, timerVars, ttsRequests, alertBox, audioOut>>

\* getPhoneticTranscription resolves: the try and finally blocks of handleStudy
\* (App.tsx 64-65, 69-71) and of fetchIPA (App.tsx 859-860, 863-865)
TranscribeResolved(k) ==
    /\ Unblocked
    /\ ipaRequests[k].st = "responded"
    /\ ipaRequests[k].outcome = "resolved"
    /\ phoneticData' = ParsePhonetic(ipaRequests[k].body)
    /\ isFetchingIPA' = FALSE
    /\ ipaRequests' = [ipaRequests EXCEPT ![k] = NoFetch]
    /\ UNCHANGED <<variant, decoderVars, vizVars, inputText, evaluation, configVars, isGenerating, recorderVars,
                   timerVars, ttsRequests, alertBox, audioOut>>

\* fault: the catch of handleStudy sends the request again
TranscribeRejected_Retries(k) ==
    /\ Unblocked
    /\ ipaRequests[k].st = "responded"
    /\ ipaRequests[k].outcome = "rejected"
    /\ ipaRequests' = [ipaRequests EXCEPT ![k].st = "sent", ![k].outcome = "none"]
    /\ UNCHANGED <<variant, decoderVars, vizVars, inputText, phoneticData, evaluation, configVars, isGenerating,
                   isFetchingIPA, recorderVars, timerVars, ttsRequests, alertBox,
                   audioOut>>

\* fault: the catch of handleStudy only logs, as fetchIPA's does
TranscribeRejected_Silent(k) ==
    /\ Unblocked
    /\ ipaRequests[k].st = "responded"
    /\ ipaRequests[k].outcome = "rejected"
    /\ isFetchingIPA' = FALSE
    /\ ipaRequests' = [ipaRequests EXCEPT ![k] = NoFetch]
    /\ UNCHANGED <<variant, decoderVars, vizVars, inputText, phoneticData, evaluation, configVars, isGenerating,
                   recorderVars, timerVars, ttsRequests, alertBox, audioOut>>

\* getPhoneticTranscription rejects: handleStudy's catch shows the alert and waits
\* for it (App.tsx 66-68); fetchIPA's catch only logs (App.tsx 861-865)
TranscribeRejected(k) ==
    /\ Unblocked
    /\ ipaRequests[k].st = "responded"
    /\ ipaRequests[k].outcome = "rejected"
    /\ IF variant = "study"
       THEN /\ alertBox' = "analyze"
            /\ ipaRequests' = [ipaRequests EXCEPT ![k].st = "alert"]
            /\ UNCHANGED isFetchingIPA
       ELSE /\ isFetchingIPA' = FALSE
            /\ ipaRequests' = [ipaRequests EXCEPT ![k] = NoFetch]
            /\ UNCHANGED alertBox
    /\ UNCHANGED <<variant, decoderVars, vizVars, inputText, phoneticData, evaluation, configVars, isGenerating,
                   recorderVars, timerVars, ttsRequests, audioOut>>


(***************************************************************************)
(* Voice settings: the three selects, App.tsx 202-229.                     *)
(***************************************************************************)
\* fault: a change of accent throws the phonetic data away
SelectAccent_Refetches(a) ==
    /\ Unblocked
    /\ a # selectedAccent
    /\ selectedAccent' = a
    /\ phoneticData' = <<>>
    /\ UNCHANGED <<variant, decoderVars, vizVars, inputText, evaluation, selectedTone, selectedSpeed,
                   isGenerating, isFetchingIPA, recorderVars, timerVars, ipaRequests,
                   ttsRequests, alertBox, audioOut>>

\* setSelectedAccent, setSelectedTone and setSelectedSpeed of the three selects
SelectAccent(a) ==
    /\ Unblocked
    /\ a # selectedAccent
    /\ selectedAccent' = a
    /\ UNCHANGED <<variant, decoderVars, vizVars,
                   inputText, phoneticData, evaluation, selectedTone, selectedSpeed,
                   isGenerating, isFetchingIPA, recorderVars, timerVars, ipaRequests,
                   ttsRequests, alertBox, audioOut>>

SelectTone(t) ==
    /\ Unblocked
    /\ t # selectedTone
    /\ selectedTone' = t
    /\ UNCHANGED <<variant, decoderVars, vizVars, inputText, phoneticData, evaluation, selectedAccent,
                   selectedSpeed, isGenerating, isFetchingIPA, recorderVars, timerVars,
                   ipaRequests, ttsRequests, alertBox, audioOut>>

SelectSpeed(n) ==
    /\ Unblocked
    /\ n # selectedSpeed
    /\ selectedSpeed' = n
    /\ UNCHANGED <<variant, decoderVars, vizVars, inputText, phoneticData, evaluation, selectedAccent,
                   selectedTone, isGenerating, isFetchingIPA, recorderVars, timerVars,
                   ipaRequests, ttsRequests, alertBox, audioOut>>

(***************************************************************************)
(* Playback of the model audio.                                            *)
(***************************************************************************)
\* fault: handlePlayModelAudio does not look at the text before it goes on
PlayReturnsEarly_IgnoresText ==
    IF variant = "study"
    THEN Len(phoneticData) = 0
    ELSE FALSE

\* the early return of handlePlayModelAudio, App.tsx 83; third version App.tsx 879
PlayReturnsEarly ==
    IF variant = "study"
    THEN IsBlank(inputText) \/ Len(phoneticData) = 0
    ELSE IsBlank(inputText)

\* fault: the Study-button versions with the handler and the button of the third
\* version, which do not look at the phonetic data
HandlePlayModelAudio_Unguarded ==
    /\ Unblocked
    /\ ~(isGenerating \/ IsBlank(inputText) \/ isFetchingIPA)
    /\ BusySynths # Synths
    /\ isGenerating' = TRUE
    /\ ttsRequests' = [ttsRequests EXCEPT ![FreeSlot(Synths, BusySynths)] =
                          [st |-> "sent", text |-> inputText,
                           accent |-> selectedAccent, tone |-> selectedTone,
                           speed |-> selectedSpeed]]
    /\ UNCHANGED <<variant, decoderVars, vizVars, inputText, phoneticData, evaluation, configVars, isFetchingIPA,
                   recorderVars, timerVars, ipaRequests, alertBox, audioOut>>

\* fault: the request is made with the voice settings the component starts with
HandlePlayModelAudio_InitialVoice ==
    /\ Unblocked
    /\ ~ListenDisabled
    /\ BusySynths # Synths
    /\ IF PlayReturnsEarly
       THEN UNCHANGED <<isGenerating, ttsRequests>>
       ELSE /\ isGenerating' = TRUE
            /\ ttsRequests' = [ttsRequests EXCEPT ![FreeSlot(Synths, BusySynths)] =
                                  [st |-> "sent", text |-> inputText,
                                   accent |-> Accent[1], tone |-> Tone[3],
                                   speed |-> speeds[2]]]
    /\ UNCHANGED <<variant, decoderVars, vizVars, inputText, phoneticData, evaluation, configVars, isFetchingIPA,
                   recorderVars, timerVars, ipaRequests, alertBox, audioOut>>

\* handlePlayModelAudio up to its await, App.tsx 82-86 and 878-882
HandlePlayModelAudio ==
    /\ Unblocked
    /\ ~ListenDisabled
    /\ BusySynths # Synths
    /\ IF PlayReturnsEarly
       THEN UNCHANGED <<isGenerating, ttsRequests>>
       ELSE /\ isGenerating' = TRUE
            /\ ttsRequests' = [ttsRequests EXCEPT ![FreeSlot(Synths, BusySynths)] =
                                  [st |-> "sent", text |-> inputText,
                                   accent |-> selectedAccent, tone |-> selectedTone,
                                   speed |-> selectedSpeed]]
    /\ UNCHANGED <<variant, decoderVars, vizVars, inputText, phoneticData, evaluation, configVars, isFetchingIPA,
                   recorderVars, timerVars, ipaRequests, alertBox, audioOut>>

\* the answers of Synthesize: audio data, a response without audio data (generateTTS
\* throws, part_000 54-55), or a call that fails in transport
SynthOutcomes == {"audio", "noAudio", "rejected"}

\* fault: handlePlayModelAudio without its finally block, a failed request leaves
\* the generating flag raised
GenerateTTSSettled_NoFinally(k, o) ==
    /\ Unblocked
    /\ ttsRequests[k].st = "sent"
    /\ IF o = "audio"
       THEN /\ audioOut' = TRUE
            /\ isGenerating' = FALSE
            /\ ttsRequests' = [ttsRequests EXCEPT ![k] = NoSynth]
            /\ UNCHANGED alertBox
       ELSE IF variant = "study"
       THEN /\ ttsRequests' = [ttsRequests EXCEPT ![k] = NoSynth]
            /\ UNCHANGED <<isGenerating, alertBox, audioOut>>
       ELSE /\ alertBox' = "audio"
            /\ ttsRequests' = [ttsRequests EXCEPT ![k].st = "alert"]
            /\ UNCHANGED <<isGenerating, audioOut>>
    /\ UNCHANGED <<variant, decoderVars, vizVars, inputText, phoneticData, evaluation, configVars, isFetchingIPA,
                   recorderVars, timerVars, ipaRequests>>

\* generateTTS settles: the rest of handlePlayModelAudio, App.tsx 86-96.  In the
\* third version the catch shows an alert and waits for it, App.tsx 888-893
GenerateTTSSettled(k, o) ==
    /\ Unblocked
    /\ ttsRequests[k].st = "sent"
    /\ IF o = "audio"
       THEN /\ audioOut' = TRUE
            /\ isGenerating' = FALSE
            /\ ttsRequests' = [ttsRequests EXCEPT ![k] = NoSynth]
            /\ UNCHANGED alertBox
       ELSE IF variant = "study"
       THEN /\ isGenerating' = FALSE
            /\ ttsRequests' = [ttsRequests EXCEPT ![k] = NoSynth]
            /\ UNCHANGED <<alertBox, audioOut>>
       ELSE /\ alertBox' = "audio"
            /\ ttsRequests' = [ttsRequests EXCEPT ![k].st = "alert"]
            /\ UNCHANGED <<isGenerating, audioOut>>
    /\ UNCHANGED <<variant, decoderVars, vizVars, inputText, phoneticData, evaluation, configVars, isFetchingIPA,
                   recorderVars, timerVars, ipaRequests>>

\* the buffer source started at App.tsx 91 plays to its end
PlaybackEnded ==
    /\ audioOut
    /\ audioOut' = FALSE
    /\ UNCHANGED <<variant, decoderVars, vizVars, inputText, phoneticData, evaluation, configVars, isGenerating,
                   isFetchingIPA, recorderVars, timerVars, ipaRequests, ttsRequests,
                   alertBox>>

(***************************************************************************)
(* The user closes the alert and the handler that raised it goes on: the   *)
(* finally block of handleStudy (App.tsx 69-71) or of the third version's  *)
(* handlePlayModelAudio (App.tsx 891-893); startRecording ends after its   *)
(* alert (App.tsx 125-127).                                                *)
(***************************************************************************)
DismissAlert ==
    /\ alertBox # "none"
    /\ alertBox' = "none"
    /\ IF alertBox = "analyze"
       THEN /\ isFetchingIPA' = FALSE
            /\ ipaRequests' = [k \in Fetches |->
                                  IF ipaRequests[k].st = "alert" THEN NoFetch
                                  ELSE ipaRequests[k]]
       ELSE UNCHANGED <<isFetchingIPA, ipaRequests>>
    /\ IF alertBox = "audio"
       THEN /\ isGenerating' = FALSE
            /\ ttsRequests' = [k \in Synths |->
                                  IF ttsRequests[k].st = "alert" THEN NoSynth
                                  ELSE ttsRequests[k]]
       ELSE UNCHANGED <<isGenerating, ttsRequests>>
    /\ UNCHANGED <<variant, decoderVars, vizVars, inputText, phoneticData, evaluation, configVars, recorderVars,
                   timerVars, audioOut>>


(***************************************************************************)
(* AudioVisualizer, rendered by the component with stream = mediaStream    *)
(* and isRecording = isRecording (App.tsx 244).  Its effect runs again     *)
(* when one of the two props has changed, after the cleanup the last run   *)
(* returned; the handlers that set isRecording or mediaStream therefore    *)
(* end with the commit of the effect.                                      *)
(***************************************************************************)
\* fault: the cleanup cancels the frame and leaves the AudioContext open
VisualizerCleanup_NoClose ==
    IF effectCleanup = 0
    THEN [contexts |-> audioContexts, frames |-> animationFrames]
    ELSE [contexts |-> audioContexts,
          frames |-> animationFrames \ {animationRef}]

\* the cleanup of the effect, AudioVisualizer.tsx 49-52: what is left of the open
\* contexts and of the requested frames
VisualizerCleanup ==
    IF effectCleanup = 0
    THEN [contexts |-> audioContexts, frames |-> animationFrames]
    ELSE [contexts |-> audioContexts \ {effectCleanup},
          frames |-> animationFrames \ {animationRef}]

\* the commit of a render with props isRecording = rec and stream = str: the cleanup
\* and then the effect, AudioVisualizer.tsx 13-53, whose first draw() requests a frame
VisualizerCommit(rec, str) ==
    /\ IF rec = isRecording /\ str = mediaStream
       THEN UNCHANGED <<audioContexts, animationFrames, animationRef, effectCleanup>>
       ELSE IF rec /\ str # 0
       THEN /\ audioContexts' = VisualizerCleanup.contexts \cup {str}
            /\ animationFrames' = VisualizerCleanup.frames \cup {str}
            /\ animationRef' = str
            /\ effectCleanup' = str
       ELSE /\ audioContexts' = VisualizerCleanup.contexts
            /\ animationFrames' = VisualizerCleanup.frames
            /\ animationRef' = IF effectCleanup = 0 THEN animationRef ELSE 0
            /\ effectCleanup' = 0
    /\ UNCHANGED mounted

\* a requested frame comes due: draw() requests the next one and keeps it in the ref,
\* AudioVisualizer.tsx 27-45
AnimationFrame(c) ==
    /\ Unblocked
    /\ c \in animationFrames
    /\ animationRef' = c
    /\ UNCHANGED <<variant, decoderVars, inputText, phoneticData, evaluation, configVars, isGenerating,
                   isFetchingIPA, recorderVars, timerVars, ipaRequests, ttsRequests,
                   alertBox, audioOut, mounted, audioContexts, animationFrames,
                   effectCleanup>>

\* the component tree is unmounted: the cleanup of the effect runs, nothing is
\* rendered again
Unmount ==
    /\ mounted
    /\ mounted' = FALSE
    /\ audioContexts' = VisualizerCleanup.contexts
    /\ animationFrames' = VisualizerCleanup.frames
    /\ animationRef' = IF effectCleanup = 0 THEN animationRef ELSE 0
    /\ effectCleanup' = 0
    /\ UNCHANGED <<variant, decoderVars, inputText, phoneticData, evaluation, configVars, isGenerating,
                   isFetchingIPA, recorderVars, timerVars, ipaRequests, ttsRequests,
                   alertBox, audioOut>>

(***************************************************************************)
(* Recording.  A session is one invocation of startRecording with the      *)
(* stream and the MediaRecorder it creates:                                *)
(*   free -> acquiring   PRACTICE pressed, getUserMedia pending            *)
(*        -> recording   recorder started                                  *)
(*        -> stopping    stop() called, the recorder's stop task queued    *)
(*        -> evaluating  onstop running, evaluatePronunciation in flight   *)
(*        -> free        onstop ended                                      *)
(* `text` is the inputText of the render whose startRecording was called:  *)
(* onstop calls the handleFinishPractice of that render.  `live` says      *)
(* whether the tracks of the session's stream are live.                    *)
(***************************************************************************)
FreeSessions == {s \in Sessions : recordings[s].st = "free"}

\* startRecording up to its await, App.tsx 99-101
StartRecording ==
    /\ Unblocked
    /\ ~isRecording
    /\ ~PracticeDisabled
    /\ FreeSessions # {}
    /\ recordings' = [recordings EXCEPT ![FreeSlot(Sessions, Sessions \ FreeSessions)] =
                          [st |-> "acquiring", text |-> inputText, live |-> FALSE,
                           blob |-> <<>>]]
    /\ UNCHANGED <<variant, decoderVars, vizVars, inputText, phoneticData, evaluation, configVars, isGenerating,
                   isFetchingIPA, isRecording, isEvaluating, mediaStream, mediaRecorderRef,
                   audioChunksRef, timerVars, ipaRequests, ttsRequests, alertBox, audioOut>>

\* getUserMedia resolves: App.tsx 101-122
GetUserMediaResolved(s) ==
    /\ Unblocked
    /\ recordings[s].st = "acquiring"
    /\ mediaStream' = s
    /\ mediaRecorderRef' = s
    /\ audioChunksRef' = <<>>
    /\ recordings' = [recordings EXCEPT ![s].st = "recording", ![s].live = TRUE]
    /\ isRecording' = TRUE
    /\ evaluation' = NoEvaluation
    /\ UNCHANGED <<variant, decoderVars, inputText, phoneticData, configVars, isGenerating, isFetchingIPA,
                   isEvaluating, timerVars, ipaRequests, ttsRequests, alertBox, audioOut>>
    /\ VisualizerCommit(isRecording', mediaStream')

\* getUserMedia rejects: App.tsx 123-126
GetUserMediaRejected(s) ==
    /\ Unblocked
    /\ recordings[s].st = "acquiring"
    /\ alertBox' = "microphone"
    /\ recordings' = [recordings EXCEPT ![s] = NoSession]
    /\ UNCHANGED <<variant, decoderVars, vizVars, inputText, phoneticData, evaluation, configVars, isGenerating,
                   isFetchingIPA, isRecording, isEvaluating, mediaStream, mediaRecorderRef,
                   audioChunksRef, timerVars, ipaRequests, ttsRequests, audioOut>>

\* stopRecording, the FINISH button shown when isRecording: App.tsx 129-134, 255-256.
\* MediaRecorder.stop() does nothing on a recorder that is not recording.
StopRecording ==
    /\ Unblocked
    /\ isRecording
    /\ IF mediaRecorderRef # 0 /\ isRecording
       THEN /\ recordings' = [recordings EXCEPT ![mediaRecorderRef].st =
                                 IF @ = "recording" THEN "stopping" ELSE @]
            /\ isRecording' = FALSE
       ELSE UNCHANGED <<recordings, isRecording>>
    /\ UNCHANGED <<variant, decoderVars, inputText, phoneticData, evaluation, configVars, isGenerating,
                   isFetchingIPA, isEvaluating, mediaStream, mediaRecorderRef,
                   audioChunksRef, timerVars, ipaRequests, ttsRequests, alertBox, audioOut>>
    /\ VisualizerCommit(isRecording', mediaStream')

\* fault: onstop evaluates the text on screen when the recorder stops
RecorderStopped_CurrentText(s, nonEmpty) ==
    /\ Unblocked
    /\ recordings[s].st = "stopping"
    /\ LET chunks == IF nonEmpty THEN Append(audioChunksRef, s) ELSE audioChunksRef
       IN /\ audioChunksRef' = chunks
          /\ recordings' = [recordings EXCEPT ![s].st = "evaluating", ![s].blob = chunks,
                                              ![s].text = inputText]
    /\ isEvaluating' = TRUE
    /\ UNCHANGED <<variant, decoderVars, vizVars, inputText, phoneticData, evaluation, configVars, isGenerating,
                   isFetchingIPA, isRecording, mediaStream, mediaRecorderRef,
                   timerVars, ipaRequests, ttsRequests, alertBox, audioOut>>

\* the recorder's stop task: it fires dataavailable with the data recorded
\* (ondataavailable, App.tsx 107-111) and then stop (onstop up to the await inside
\* handleFinishPractice, App.tsx 113-115 and 136-139)
RecorderStopped(s, nonEmpty) ==
    /\ Unblocked
    /\ recordings[s].st = "stopping"
    /\ LET chunks == IF nonEmpty THEN Append(audioChunksRef, s) ELSE audioChunksRef
       IN /\ audioChunksRef' = chunks
          /\ recordings' = [recordings EXCEPT ![s].st = "evaluating", ![s].blob = chunks]
    /\ isEvaluating' = TRUE
    /\ UNCHANGED <<variant, decoderVars, vizVars, inputText, phoneticData, evaluation, configVars, isGenerating,
                   isFetchingIPA, isRecording, mediaStream, mediaRecorderRef,
                   timerVars, ipaRequests, ttsRequests, alertBox, audioOut>>

\* the answers of Evaluate: JSON of the schema, an empty body, text that is no JSON,
\* or a call that fails in transport
EvaluateOutcomes == {"json", "empty", "malformed", "rejected"}

\* whether evaluatePronunciation rejects, part_000 79 and 114-119
EvaluateThrows(o) == o \in {"malformed", "rejected"}

\* JSON.parse(response.text || "{}"), part_000 115
ParseEvaluation(o, text, blob) ==
    IF o = "empty" THEN [kind |-> "emptyObject", text |-> <<>>, blob |-> <<>>]
    ELSE [kind |-> "structured", text |-> text, blob |-> blob]

\* the third version's setFeedback of the catch, App.tsx 940
ErrorFeedback == [kind |-> "errorText", text |-> <<>>, blob |-> <<>>]

\* fault: handleFinishPractice without try and catch, a rejection ends onstop before
\* the tracks are stopped
EvaluateSettled_Uncaught(s, o) ==
    /\ Unblocked
    /\ recordings[s].st = "evaluating"
    /\ IF EvaluateThrows(o)
       THEN /\ recordings' = [recordings EXCEPT ![s].st = "aborted"]
            /\ UNCHANGED <<evaluation, isEvaluating, mediaStream>>
       ELSE /\ evaluation' = ParseEvaluation(o, recordings[s].text, recordings[s].blob)
            /\ isEvaluating' = FALSE
            /\ recordings' = [recordings EXCEPT ![s] = NoSession]
            /\ mediaStream' = 0
    /\ UNCHANGED <<variant, decoderVars, inputText, phoneticData, configVars, isGenerating, isFetchingIPA,
                   isRecording, mediaRecorderRef, audioChunksRef, timerVars, ipaRequests,
                   ttsRequests, alertBox, audioOut>>
    /\ VisualizerCommit(isRecording', mediaStream')

\* fault: the catch of handleFinishPractice stores an error value in every version
EvaluateSettled_StoresError(s, o) ==
    /\ Unblocked
    /\ recordings[s].st = "evaluating"
    /\ evaluation' = IF ~EvaluateThrows(o)
                     THEN ParseEvaluation(o, recordings[s].text, recordings[s].blob)
                     ELSE ErrorFeedback
    /\ isEvaluating' = FALSE
    /\ recordings' = [recordings EXCEPT ![s] = NoSession]
    /\ mediaStream' = 0
    /\ UNCHANGED <<variant, decoderVars, inputText, phoneticData, configVars, isGenerating, isFetchingIPA,
                   isRecording, mediaRecorderRef, audioChunksRef, timerVars, ipaRequests,
                   ttsRequests, alertBox, audioOut>>
    /\ VisualizerCommit(isRecording', mediaStream')

\* evaluatePronunciation settles: the rest of handleFinishPractice and then the rest
\* of onstop, App.tsx 139-145 and 116-117; third version App.tsx 936-943 and 913-914
EvaluateSettled(s, o) ==
    /\ Unblocked
    /\ recordings[s].st = "evaluating"
    /\ evaluation' = IF ~EvaluateThrows(o)
                     THEN ParseEvaluation(o, recordings[s].text, recordings[s].blob)
                     ELSE IF variant = "study" THEN evaluation ELSE ErrorFeedback
    /\ isEvaluating' = FALSE
    /\ recordings' = [recordings EXCEPT ![s] = NoSession]
    /\ mediaStream' = 0
    /\ UNCHANGED <<variant, decoderVars, inputText, phoneticData, configVars, isGenerating, isFetchingIPA,
                   isRecording, mediaRecorderRef, audioChunksRef, timerVars, ipaRequests,
                   ttsRequests, alertBox, audioOut>>
    /\ VisualizerCommit(isRecording', mediaStream')

\* generateTTS from the response to the decoded buffer, part_000 54-65, with one channel
DecodeResponse ==
    /\ audioBuffer.st = "none"
    /\ audioBuffer' = IF Len(base64Audio) = 0
                      THEN [st |-> "noAudio", length |-> 0, channelData |-> <<>>]
                      ELSE decodeAudioData(decode(base64Audio), 1)
    /\ UNCHANGED <<variant, inputText, phoneticData, evaluation, configVars, isGenerating,
                   isFetchingIPA, recorderVars, timerVars, ipaRequests, ttsRequests,
                   alertBox, audioOut, vizVars, pcm, base64Audio>>


(***************************************************************************)
(* Specifications.                                                         *)
(***************************************************************************)
Transcribing ==
    \/ \E k \in Fetches : TranscribeRespond(k)
    \/ \E k \in Fetches : TranscribeResolved(k)
    \/ \E k \in Fetches : TranscribeRejected(k)

Playing ==
    \/ HandlePlayModelAudio
    \/ \E k \in Synths, o \in SynthOutcomes : GenerateTTSSettled(k, o)
    \/ PlaybackEnded

Recording ==
    \/ StartRecording
    \/ \E s \in Sessions : GetUserMediaResolved(s)
    \/ \E s \in Sessions : GetUserMediaRejected(s)
    \/ StopRecording
    \/ \E s \in Sessions, b \in BOOLEAN : RecorderStopped(s, b)
    \/ \E s \in Sessions, o \in EvaluateOutcomes : EvaluateSettled(s, o)

Selecting ==
    \/ \E a \in AccentChoices : SelectAccent(a)
    \/ \E t \in ToneChoices : SelectTone(t)
    \/ \E n \in SpeedChoices : SelectSpeed(n)

\* the Study-button versions of the component
Next ==
    \/ \E t \in Texts : HandleInputChange(t)
    \/ HandleStudy
    \/ Transcribing
    \/ Playing
    \/ Recording
    \/ DismissAlert

Spec == InitOf("study") /\ [][Next]_vars


(***************************************************************************)
(* The same with the scheduling the platform provides.  The event loop     *)
(* runs every queued task (the recorder's dataavailable and stop events,   *)
(* the continuation of a settled request) whenever no alert blocks the     *)
(* page, the Evaluate call settles, and the user closes an alert.          *)
(***************************************************************************)
\* the queued work of a stopped recorder
Pipeline(s) ==
    \/ \E b \in BOOLEAN : RecorderStopped(s, b)
    \/ \E o \in EvaluateOutcomes : EvaluateSettled(s, o)

Fairness ==
    /\ WF_vars(DismissAlert)
    /\ \A s \in Sessions : SF_vars(Pipeline(s))

\* text, transcription and the recorder, without playback
NextRecorder ==
    \/ \E t \in Texts : HandleInputChange(t)
    \/ HandleStudy
    \/ Transcribing
    \/ Recording
    \/ DismissAlert

SpecRecorder == InitOf("study") /\ [][NextRecorder]_vars /\ Fairness

(***************************************************************************)
(* Text, transcription, voice settings and playback of both behaviours of  *)
(* the component, without the recorder.                                    *)
(***************************************************************************)
NextVoice ==
    \/ \E t \in Texts : HandleInputChange(t)
    \/ \E t \in Texts : SetInputText(t)
    \/ HandleStudy
    \/ \E i \in Timers : DebounceFire(i)
    \/ Transcribing
    \/ Selecting
    \/ Playing
    \/ DismissAlert

SpecVoice == (InitOf("study") \/ InitOf("debounce")) /\ [][NextVoice]_vars


(***************************************************************************)
(* Text, transcription and playback of both behaviours of the component    *)
(* with the voice settings it starts with, without the recorder.           *)
(***************************************************************************)
NextText ==
    \/ \E t \in Texts : HandleInputChange(t)
    \/ \E t \in Texts : SetInputText(t)
    \/ HandleStudy
    \/ \E i \in Timers : DebounceFire(i)
    \/ Transcribing
    \/ Playing
    \/ DismissAlert

SpecText == (InitOf("study") \/ InitOf("debounce")) /\ [][NextText]_vars


(***************************************************************************)
(* Text, transcription and the recorder of both behaviours of the          *)
(* component, without playback.                                            *)
(***************************************************************************)
NextPractice ==
    \/ \E t \in Texts : HandleInputChange(t)
    \/ \E t \in Texts : SetInputText(t)
    \/ HandleStudy
    \/ \E i \in Timers : DebounceFire(i)
    \/ Transcribing
    \/ Recording
    \/ DismissAlert

SpecPractice == (InitOf("study") \/ InitOf("debounce")) /\ [][NextPractice]_vars


(***************************************************************************)
(* Text, transcription and the recorder with the visualizer's animation    *)
(* frames, until the component tree is unmounted.                          *)
(***************************************************************************)
NextVisualizer ==
    \/ mounted /\ \E t \in Texts : HandleInputChange(t)
    \/ mounted /\ HandleStudy
    \/ mounted /\ Transcribing
    \/ mounted /\ Recording
    \/ mounted /\ DismissAlert
    \/ mounted /\ \E c \in Sessions : AnimationFrame(c)
    \/ Unmount

SpecVisualizer == InitOf("study") /\ [][NextVisualizer]_vars


(***************************************************************************)
(* The decoding of one response of the speech service: any payload of up   *)
(* to MaxFrames samples, a byte more or less included.                     *)
(***************************************************************************)
InitDecoder ==
    /\ InitComponent("study")
    /\ pcm \in Payloads
    /\ base64Audio = btoa(pcm)
    /\ audioBuffer = NoBuffer

NextDecoder == DecodeResponse

SpecDecoder == InitDecoder /\ [][NextDecoder]_vars


(***************************************************************************)
(* Properties.                                                             *)
(***************************************************************************)
\* a step that issues a transcription request
FetchIssued == \E k \in Fetches : ipaRequests[k].st = "idle" /\ ipaRequests'[k].st = "sent"

\* a step that issues a synthesis request
SynthIssued == \E k \in Synths : ttsRequests[k].st = "idle" /\ ttsRequests'[k].st = "sent"

\* the stages of a session from the start of its recorder to the end of its onstop
Active == {"recording", "stopping", "evaluating"}

\* C1: every recording ended by stopRecording has the tracks of its stream stopped
\* in the end, whatever the Evaluate call that follows answers (also when
\* evaluatePronunciation rejects).
C1_StreamReleased ==
    \A s \in Sessions : (recordings[s].st = "stopping") ~> (~recordings[s].live)

\* a stopped recording whose Evaluate call is in flight
C1_Witness == \E s \in Sessions : recordings[s].st = "evaluating" /\ recordings[s].live

\* C2: the tracks are stopped before the evaluation request is issued: no stream is
\* live while its recording has stopped and its evaluation is in flight.
C2_ReleasedBeforeEvaluate ==
    \A s \in Sessions : recordings[s].st = "evaluating" => ~recordings[s].live

C4_OneRequestOfEachKind ==
    /\ Cardinality(BusyFetches) <= 1
    /\ Cardinality(BusySynths) <= 1
    /\ Cardinality(Evaluating) <= 1

\* C5: handleStudy raises the fetching flag when it issues its request and the flag
\* falls when that request has settled, resolved or rejected, and at no other time.
C5_FetchingExactlyOnce ==
    [][ /\ (BusyFetches = {} /\ BusyFetches' # {}) => (~isFetchingIPA /\ isFetchingIPA')
        /\ (BusyFetches # {} /\ BusyFetches' = {}) => (isFetchingIPA /\ ~isFetchingIPA')
        /\ (isFetchingIPA' # isFetchingIPA) => ((BusyFetches = {}) # (BusyFetches' = {}))
        /\ Cardinality(BusyFetches') <= 1 ]_vars

\* a rejected request whose alert is on screen, the flag still raised
C5_Witness == alertBox = "analyze" /\ isFetchingIPA

\* C6: right after handleStudy issues a request, evaluation is null and the phonetic
\* data is empty.
C6_StudyClearsBoth ==
    [][ FetchIssued => (evaluation' = NoEvaluation /\ Len(phoneticData') = 0) ]_vars

\* a transcription request that has failed: the call rejected or the body is no JSON
Failed(r) == r.outcome = "rejected" \/ (r.outcome = "resolved" /\ r.body.kind = "malformed")

C8_NullUntilOwnResult ==
    \A s \in Sessions : recordings[s].st \in Active => evaluation = NoEvaluation

C10_LastWriteWins ==
    [][ \A k \in Fetches :
          (ipaRequests[k].st = "responded" /\ ipaRequests[k].outcome = "resolved"
             /\ ipaRequests'[k].st # "responded")
          => phoneticData' = ParsePhonetic(ipaRequests[k].body) ]_vars

\* the words of an earlier text on display after the text was blanked
C10_Witness == Len(phoneticData) > 0 /\ IsBlank(inputText)

C12_NoDegradedEvaluation == evaluation.kind \in {"null", "structured"}

\* C13: a Transcribe response that is no JSON is taken as the empty sequence: the
\* call resolves, no alert is raised, the fetching flag falls and the phonetic
\* data becomes empty.
C13_MalformedIsEmpty ==
    [][ \A k \in Fetches :
          (/\ ipaRequests[k].st = "responded"
           /\ ipaRequests[k].body.kind = "malformed"
           /\ ipaRequests'[k].st # "responded")
          => /\ Len(phoneticData') = 0
             /\ ipaRequests'[k] = NoFetch
             /\ ~isFetchingIPA'
             /\ alertBox' = "none" ]_vars

\* a response that is no JSON has arrived while a phonetic sequence is on display
C13_Witness ==
    /\ Unblocked
    /\ Len(phoneticData) > 0
    /\ \E k \in Fetches : /\ ipaRequests[k].st = "responded"
                          /\ ipaRequests[k].body.kind = "malformed"

\* C14: when Synthesize returns no audio data, handlePlayModelAudio ends without
\* starting any playback and with the generating flag false: in the Study-button
\* versions at once, in the debounced version when its alert has been closed; the
\* flag is raised exactly while a call of the handler is under way.
C14_NoAudioEndsIdle ==
    [][ /\ \A k \in Synths :
             GenerateTTSSettled(k, "noAudio")
             => /\ audioOut' = audioOut
                /\ IF variant = "study"
                   THEN ~isGenerating' /\ ttsRequests'[k] = NoSynth
                   ELSE alertBox' = "audio" /\ ttsRequests'[k].st = "alert"
        /\ (alertBox = "audio" /\ alertBox' = "none")
             => (~isGenerating' /\ BusySynths' = {} /\ audioOut' = audioOut)
        /\ isGenerating' = (BusySynths' # {}) ]_vars

\* debounced version: a synthesis request has failed, its alert is on screen and
\* nothing plays
C14_Witness == alertBox = "audio" /\ ~audioOut /\ isGenerating

\* C15: while the input text is empty or whitespace-only no transcription request
\* and no synthesis request is issued and neither in-flight flag is raised, and
\* a transcription triggered for such a text leaves the phonetic data empty.
C15_BlankShortCircuits ==
    [][ IsBlank(inputText)
          => /\ ~FetchIssued
             /\ ~SynthIssued
             /\ isFetchingIPA' => isFetchingIPA
             /\ isGenerating' => isGenerating
             /\ (HandleStudy \/ \E i \in Timers : DebounceFire(i)) => Len(phoneticData') = 0 ]_vars

\* Study-button version: the text is blank and LISTEN TO MODEL is enabled, because
\* the answer of an earlier request arrived after the text was blanked
C15_Witness ==
    /\ variant = "study"
    /\ IsBlank(inputText)
    /\ ~ListenDisabled
    /\ ENABLED HandlePlayModelAudio

\* C16: when getUserMedia rejects, the alert is raised and no recording is under
\* way: isRecording is false, no stream is held, no recorder records, and the
\* evaluation and the phonetic data are as they were.
C16_DeniedNeverStarts ==
    [][ \A s \in Sessions :
          GetUserMediaRejected(s)
          => /\ alertBox' = "microphone"
             /\ ~isRecording'
             /\ mediaStream' = 0
             /\ \A r \in Sessions : recordings'[r].st # "recording"
             /\ evaluation' = evaluation
             /\ phoneticData' = phoneticData ]_vars

\* a step that sends a transcription request, a first time or again
FetchSent == \E k \in Fetches : ipaRequests[k].st # "sent" /\ ipaRequests'[k].st = "sent"

\* a step that sends a synthesis request, a first time or again
SynthSent == \E k \in Synths : ttsRequests[k].st # "sent" /\ ttsRequests'[k].st = "sent"

\* C17: the handling of a failed transcription, synthesis or evaluation request
\* ends with its in-flight flag false and its request gone, a denied microphone
\* ends its startRecording call after the alert, and a request is sent only by
\* the user's Study, LISTEN TO MODEL, PRACTICE and FINISH actions, never again
\* by the handling of a failure.
C17_FailuresEndIdleNoRetry ==
    [][ /\ \A k \in Fetches :
             /\ (ipaRequests[k].st = "responded" /\ ipaRequests[k].outcome = "rejected"
                    /\ ipaRequests'[k].st # "responded")
                  => (ipaRequests'[k].st = "alert" /\ alertBox' = "analyze")
             /\ (ipaRequests[k].st = "alert" /\ ipaRequests'[k].st # "alert")
                  => (ipaRequests'[k] = NoFetch /\ ~isFetchingIPA')
        /\ \A k \in Synths, o \in {"noAudio", "rejected"} :
             GenerateTTSSettled(k, o) => (ttsRequests'[k] = NoSynth /\ ~isGenerating')
        /\ \A s \in Sessions, o \in EvaluateOutcomes :
             (EvaluateSettled(s, o) /\ EvaluateThrows(o))
             => (recordings'[s] = NoSession /\ ~isEvaluating')
        /\ \A s \in Sessions :
             (recordings[s].st = "acquiring" /\ recordings'[s].st \notin {"acquiring", "recording"})
             => (recordings'[s] = NoSession /\ alertBox' = "microphone")
        /\ FetchSent => HandleStudy
        /\ SynthSent => HandlePlayModelAudio
        /\ (\E s \in Sessions : recordings[s].st # "acquiring" /\ recordings'[s].st = "acquiring")
             => StartRecording
        /\ (\E s \in Sessions : recordings[s].st # "evaluating" /\ recordings'[s].st = "evaluating")
             => (\E s \in Sessions, b \in BOOLEAN : RecorderStopped(s, b))
        /\ (\E s \in Sessions : recordings[s].st # "stopping" /\ recordings'[s].st = "stopping")
             => StopRecording ]_vars

\* a denied microphone: the alert is on screen and nothing is in flight
C17_Witness ==
    /\ alertBox = "microphone"
    /\ \A s \in Sessions : recordings[s].st = "free"
    /\ BusyFetches = {}
    /\ BusySynths = {}

\* C18: a step that changes the accent, the tone or the speed changes nothing
\* else: text, phonetic data, evaluation, flags, timer, requests in flight with
\* the settings they were issued with, alert and playback stay as they were.
C18_ConfigChangesOnlyConfig ==
    [][ (configVars' # configVars)
          => UNCHANGED <<variant, vizVars, inputText, phoneticData, evaluation, isGenerating,
                         isFetchingIPA, recorderVars, timerVars, ipaRequests,
                         ttsRequests, alertBox, audioOut>> ]_vars

\* a synthesis request in flight with settings that are no longer the selected ones,
\* phonetic data on display
C18_Witness ==
    /\ Len(phoneticData) > 0
    /\ \E k \in Synths :
          /\ ttsRequests[k].st = "sent"
          /\ ttsRequests[k].accent # selectedAccent
          /\ ttsRequests[k].tone # selectedTone
          /\ ttsRequests[k].speed # selectedSpeed

\* C19: a synthesis request is issued with the accent, the tone and the speed
\* selected and the input text present when LISTEN TO MODEL was pressed, and it
\* keeps them until it settles.
C19_RequestCarriesSelection ==
    [][ \A k \in Synths :
          /\ (ttsRequests[k].st # "sent" /\ ttsRequests'[k].st = "sent")
               => ttsRequests'[k] = [st |-> "sent", text |-> inputText,
                                     accent |-> selectedAccent, tone |-> selectedTone,
                                     speed |-> selectedSpeed]
          /\ (ttsRequests[k].st = "sent" /\ ttsRequests'[k].st = "sent")
               => ttsRequests'[k] = ttsRequests[k] ]_vars

\* a request in flight that carries a selection different in accent, tone and speed
\* from the one the component starts with
C19_Witness ==
    \E k \in Synths :
        /\ ttsRequests[k].st = "sent"
        /\ ~IsBlank(ttsRequests[k].text)
        /\ ttsRequests[k].accent # Accent[1]
        /\ ttsRequests[k].tone # Tone[3]
        /\ ttsRequests[k].speed # speeds[2]

\* C20: in the debounced version at most one timer is pending, it is the one the
\* ref holds and it carries the text of the latest edit; every transcription
\* request is issued with the input text of the moment, never with a text that
\* an edit has replaced.
C20_DebounceSupersedes ==
    [][ /\ Cardinality(PendingTimers') <= 1
        /\ \A i \in PendingTimers' : i = timeoutRef' /\ timers'[i].text = inputText'
        /\ \A k \in Fetches :
             (ipaRequests[k].st # "sent" /\ ipaRequests'[k].st = "sent")
             => (ipaRequests'[k].text = inputText /\ PendingTimers' = {}) ]_vars

\* debounced version: the request for an earlier text is in flight, the text has
\* been edited since and the timer of the edit is pending
C20_Witness ==
    /\ variant = "debounce"
    /\ PendingTimers # {}
    /\ \E k \in Fetches : ipaRequests[k].st = "sent" /\ ipaRequests[k].text # inputText

\* C21: no AudioContext of the visualizer is open and none of its animation frames
\* is requested unless the component is mounted, isRecording is true and the
\* stream is not null; the only context open and the only frame requested are
\* those of the current stream, every context opened before is closed.
C21_VisualizerReleases ==
    /\ (~mounted \/ ~isRecording \/ mediaStream = 0)
         => (audioContexts = {} /\ animationFrames = {})
    /\ audioContexts \subseteq {mediaStream}
    /\ animationFrames \subseteq audioContexts

\* unmounted while a recording was under way with the visualizer drawing
C21_Witness ==
    /\ ~mounted
    /\ isRecording
    /\ mediaStream # 0

\* C22: whenever the phonetic data changes it becomes empty or exactly the list
\* of one Transcribe response that has arrived, in the order of that response.
C22_ReplacedWholesale ==
    [][ (phoneticData' # phoneticData)
          => \/ phoneticData' = <<>>
             \/ \E k \in Fetches :
                   /\ ipaRequests[k].st = "responded"
                   /\ ipaRequests[k].outcome = "resolved"
                   /\ ipaRequests'[k] = NoFetch
                   /\ phoneticData' = ParsePhonetic(ipaRequests[k].body) ]_vars

\* a word list has arrived while the list of an earlier response is on display
C22_Witness ==
    /\ Unblocked
    /\ Len(phoneticData) > 0
    /\ \E k \in Fetches :
          /\ ipaRequests[k].st = "responded"
          /\ ipaRequests[k].body.kind = "json"
          /\ Len(ipaRequests[k].body.value) > 0

\* C23: the evaluating flag rises only when a stopped recording hands its audio
\* to Evaluate, and when an evaluation request has settled the controller is
\* idle: not recording, not evaluating, no evaluation request in flight.
C23_RecordEvaluateIdle ==
    [][ /\ (~isEvaluating /\ isEvaluating')
             => \E s \in Sessions : /\ recordings[s].st = "stopping"
                                    /\ recordings'[s].st = "evaluating"
        /\ \A s \in Sessions :
             (recordings[s].st = "evaluating" /\ recordings'[s].st # "evaluating")
             => (~isRecording' /\ ~isEvaluating' /\ Evaluating' = {}) ]_vars

\* C24: the decoder maps a mono payload of 2n bytes (n >= 1, what generateTTS hands
\* to it) to a buffer of exactly n frames, one channel, whose i-th sample is the i-th
\* little-endian signed 16-bit value of the payload divided by 32768, so that every
\* sample lies in [-1, 1) and none is dropped, duplicated or reordered.
C24_DecodesEverySample ==
    (audioBuffer.st # "none" /\ Len(pcm) > 0 /\ Len(pcm) % 2 = 0)
    => LET n == Len(pcm) \div 2
           value(i) == IF pcm[2 * i] >= 128
                       THEN pcm[2 * i - 1] + 256 * (pcm[2 * i] - 256)
                       ELSE pcm[2 * i - 1] + 256 * pcm[2 * i]
       IN /\ audioBuffer.st = "buffer"
          /\ audioBuffer.length = n
          /\ Len(audioBuffer.channelData) = 1
          /\ Len(audioBuffer.channelData[1]) = n
          /\ \A i \in 1..n :
                LET sample == audioBuffer.channelData[1][i]
                IN /\ sample.den = 32768
                   /\ sample.num = value(i)
                   /\ -sample.den <= sample.num
                   /\ sample.num < sample.den

\* two samples of opposite sign whose bytes differ have been decoded
C24_Witness ==
    /\ audioBuffer.st = "buffer"
    /\ pcm = <<0, 128, 255, 127>>
    /\ audioBuffer.channelData[1][1].num = -32768
    /\ audioBuffer.channelData[1][2].num = 32767

\* C25: at most one microphone stream is open at any time, and every stream that was
\* acquired stays reachable by stopRecording: the recorder of a recording under way
\* is the one mediaRecorderRef holds.
C25_OneStreamNoneOrphaned ==
    /\ Cardinality({s \in Sessions : recordings[s].live}) <= 1
    /\ \A s \in Sessions : recordings[s].st = "recording" => mediaRecorderRef = s

\* C26: the blob handed to evaluation consists of exactly the non-empty chunks
\* delivered during that same recording session: the blob of a session under
\* evaluation holds no chunk of another session, and a session whose recorder
\* delivered data is handed its chunk (a later recording has not emptied the list).
C26_BlobOfOwnSession ==
    [][ \A s \in Sessions, nonEmpty \in BOOLEAN :
            RecorderStopped(s, nonEmpty)
            => recordings'[s].blob = IF nonEmpty THEN <<s>> ELSE <<>> ]_vars

\* C27: a displayed evaluation is never stale with respect to the text: whenever an
\* evaluation result is on display, the input text is the text of the recording that
\* produced it (a result that arrives after an edit is not displayed, and an edit
\* made while a result is shown clears it).
C27_EvaluationNeverStale ==
    evaluation.kind = "structured" => evaluation.text = inputText

\* C28: isRecording and isEvaluating are never both true: no recording is active
\* while an evaluation request is in flight.
C28_NotRecordingWhileEvaluating ==
    /\ ~(isRecording /\ isEvaluating)
    /\ ~(isRecording /\ Evaluating # {})

\* C29: while a recording is active the preconditions of recording keep holding:
\* phoneticData is non-empty and no transcription is in flight.
C29_PreconditionsKeepHolding ==
    isRecording => (Len(phoneticData) > 0 /\ ~isFetchingIPA /\ BusyFetches = {})

\* C30: the text sent to Evaluate with a recording is the input text as it was when
\* startRecording was called for it: the session takes the text on screen at that
\* moment, no later step changes it (edits while recording or between stop and the
\* request included), and the result stored is the result for that text.
C30_EvaluatesTextOfStart ==
    [][ \A s \in Sessions :
          /\ (recordings[s].st = "free" /\ recordings'[s].st # "free")
                => recordings'[s].text = inputText
          /\ (recordings[s].st # "free" /\ recordings'[s].st # "free")
                => recordings'[s].text = recordings[s].text
          /\ (recordings[s].st = "evaluating" /\ recordings'[s].st # "evaluating"
                /\ evaluation'.kind = "structured" /\ evaluation' # evaluation)
                => evaluation'.text = recordings[s].text ]_vars

\* an evaluation request is in flight for a text that has been edited since
C30_Witness ==
    \E s \in Sessions : /\ recordings[s].st = "evaluating"
                        /\ recordings[s].text = <<"a">>
                        /\ inputText # <<"a">>

====
